---- MODULE Spec2Model ----
(***************************************************************************)
(* Model of triserver (src/src/main.rs): a TCP listener, the client        *)
(* manager thread that owns the client map, and one bridging thread per    *)
(* client that relays bytes between the client socket and a Telnet         *)
(* connection to the backend.                                              *)
(*                                                                         *)
(* Threads are modelled at the granularity of their blocking-free I/O      *)
(* steps.  A Rust panic (unwrap / expect on an Err) ends the panicking     *)
(* thread at that statement; a panic of the main thread ends the process.  *)
(***************************************************************************)
EXTENDS Integers, Sequences, FiniteSets, TLC

\* ------------------------------------------------------------------ bounds
MaxConns == 2          \* connections the listener accepts in a run
MaxClosed == 3         \* queued ConnectionClosed messages in ClosedInit
MaxBytes == 2          \* bytes the client of a traced session sends
MaxData == 2           \* Data events the backend sends a traced session

Conns == 1..MaxConns   \* accepted TcpStreams, in accept order
\* Uuid::new_v4() draws 122 random bits: the ids are modelled as never
\* repeating, the n-th one minted being n.
Ids == 1..MaxConns

\* ------------------------------------------------------------- state
VARIABLES
    listener,          \* main thread: "running" | "panicked" (process gone)
    accepted,          \* number of streams accepted so far
    client,            \* client[c]: peer side of stream c, "open" | "closed"
    channel,           \* the unbounded crossbeam channel, FIFO
    manager,           \* client manager thread: pc, and the record in hand
    next_id,           \* next fresh Uuid
    clients,           \* SharedClientMap.data : Uuid -> ClientConnection
    bridge,            \* bridge[id]: the thread spawned for session id
    last,              \* what the most recent bridge step did
    connected,         \* history: ids whose Connect has been processed
    closed,            \* history: closed[id] = ConnectionClosed{id} processed
    sent,              \* history: sent[id] = ConnectionClosed{id} sent
    trace,             \* history: the traffic of one session, both ways
    feed               \* Data payloads the backend sends besides DataBuffers

vars == <<listener, accepted, client, channel, manager, next_id, clients,
          bridge, last, connected, closed, sent, trace, feed>>

\* --------------------------------------------------------- messages
\* enum ClientManagerMessage
Connect(stream) == [type |-> "Connect", stream |-> stream, client_id |-> 0]
ConnectionClosed(client_id) ==
    [type |-> "ConnectionClosed", stream |-> 0, client_id |-> client_id]

\* Mutant of ClientConnection: the record does not carry the id given.
ClientConnectionNil(client_id, ip_addr) ==
    [client_id |-> 0, ip_addr |-> ip_addr]

\* struct ClientConnection
ClientConnection(client_id, ip_addr) ==
    [client_id |-> client_id, ip_addr |-> ip_addr]

\* The peer address of accepted stream c (an IPv4 address, four octets).
\* Stream 1 is the client of the spec's scenario 3, 203.0.113.7.
PeerAddr(c) == <<203, 0, 113, 6 + c>>
NoAddr == <<>>

\* ------------------------------------------------ SharedClientMap
MapNew == << >>

\* Mutant of MapInsert: the record is not stored.
MapInsertNothing(map, key, value) == map

MapInsert(map, key, value) ==
    [k \in DOMAIN map \cup {key} |-> IF k = key THEN value ELSE map[k]]

MapGet(map, key) ==
    IF key \in DOMAIN map THEN <<map[key]>> ELSE << >>   \* Option: Some / None

\* Mutant of MapRemove: the key stays in the map.
MapRemoveNothing(map, key) == map

MapRemove(map, key) == [k \in DOMAIN map \ {key} |-> map[k]]

MapLen(map) == Cardinality(DOMAIN map)

\* ------------------------------------------------------- Telnet
\* telnet::Action
Actions == {"Do", "Dont", "Will", "Wont"}

\* telnet::TelnetOption: the five options the bridge matches on, and one
\* (NAWS) standing for every option that falls to the `_ => ()` arm.
Options == {"SNDLOC", "Echo", "SuppressGoAhead", "TransmitBinary", "TTYPE",
            "NAWS"}

\* telnet::TelnetError
TelnetErrors == {"InternalQueueErr", "NegotiationErr", "SubnegotiationErr"}

\* Payloads a Data event carries (CP437 bytes) and bytes a client sends.
DataBuffers == {<<65, 66>>, <<128>>, <<13, 225>>}
ClientBytes == {97, 255}

\* telnet::Event
Event(kind, action, option, buffer, error) ==
    [kind |-> kind, action |-> action, option |-> option,
     buffer |-> buffer, error |-> error]

NoEvent == Event("none", "", "", <<>>, "")

Events ==
    {Event("Data", "", "", b, "") : b \in DataBuffers}
    \cup {Event("Negotiation", a, o, <<>>, "") : a \in Actions, o \in Options}
    \cup {Event("Error", "", "", <<>>, e) : e \in TelnetErrors}
    \cup {Event("UnknownIAC", "", "", <<241>>, "")}
    \cup {Event("Subnegotiation", "", "TTYPE", <<1>>, "")}
    \cup {Event("TimedOut", "", "", <<>>, "")}
    \cup {Event("NoData", "", "", <<>>, "")}

\* A call the bridge makes on its Telnet connection.
Negotiate(action, option) ==
    [call |-> "negotiate", action |-> action, option |-> option, data |-> <<>>]
Subnegotiate(option, data) ==
    [call |-> "subnegotiate", action |-> "", option |-> option, data |-> data]
TelnetWrite(data) ==
    [call |-> "write", action |-> "", option |-> "", data |-> data]

\* --------------------------------------------- text conversions
\* Decimal digits of n (0..255) as ASCII bytes, as u8's Display prints them.
Decimal(n) ==
    IF n < 10 THEN <<48 + n>>
    ELSE IF n < 100 THEN <<48 + (n \div 10), 48 + (n % 10)>>
    ELSE <<48 + (n \div 100), 48 + ((n \div 10) % 10), 48 + (n % 10)>>

\* ip_addr.to_string().as_bytes() for an IPv4 address: a.b.c.d
IpToString(ip) ==
    Decimal(ip[1]) \o <<46>> \o Decimal(ip[2]) \o <<46>>
        \o Decimal(ip[3]) \o <<46>> \o Decimal(ip[4])

\* "ansi-bbs".as_bytes()
TerminalType == <<97, 110, 115, 105, 45, 98, 98, 115>>

\* codepage_437::CP437_CONTROL, upper half: the Unicode scalar of bytes
\* 0x80..0xFF.  The lower half maps every byte to the same scalar.
Cp437High ==
    <<199, 252, 233, 226, 228, 224, 229, 231,
      234, 235, 232, 239, 238, 236, 196, 197,
      201, 230, 198, 244, 246, 242, 251, 249,
      255, 214, 220, 162, 163, 165, 8359, 402,
      225, 237, 243, 250, 241, 209, 170, 186,
      191, 8976, 172, 189, 188, 161, 171, 187,
      9617, 9618, 9619, 9474, 9508, 9569, 9570, 9558,
      9557, 9571, 9553, 9559, 9565, 9564, 9563, 9488,
      9492, 9524, 9516, 9500, 9472, 9532, 9566, 9567,
      9562, 9556, 9577, 9574, 9568, 9552, 9580, 9575,
      9576, 9572, 9573, 9561, 9560, 9554, 9555, 9579,
      9578, 9496, 9484, 9608, 9604, 9612, 9616, 9600,
      945, 223, 915, 960, 931, 963, 181, 964,
      934, 920, 937, 948, 8734, 966, 949, 8745,
      8801, 177, 8805, 8804, 8992, 8993, 247, 8776,
      176, 8729, 183, 8730, 8319, 178, 9632, 160>>

Cp437Decode(b) == IF b < 128 THEN b ELSE Cp437High[b - 127]

\* Mutant of Utf8: the scalar goes out as one byte.
Utf8Latin1(c) == <<c % 256>>

\* UTF-8 bytes of one Unicode scalar below U+10000 (String::as_bytes).
Utf8(c) ==
    IF c < 128 THEN <<c>>
    ELSE IF c < 2048 THEN <<192 + (c \div 64), 128 + (c % 64)>>
    ELSE <<224 + (c \div 4096), 128 + ((c \div 64) % 64), 128 + (c % 64)>>

\* String::from_cp437(buffer, &CP437_CONTROL).as_bytes()
RECURSIVE FromCp437(_)
FromCp437(buffer) ==
    IF buffer = <<>> THEN <<>>
    ELSE Utf8(Cp437Decode(Head(buffer))) \o FromCp437(Tail(buffer))

\* ------------------------------------- negotiation (the match on option)
\* Each operator is one arm of `match option`: the calls the arm makes on
\* the Telnet connection, in order, if none of them fails.

\* Mutant of OnSNDLOC: the address goes out as its four octets, not as text.
OnSNDLOCOctets(action, option, ip_addr) ==
    CASE action = "Do" ->
            <<Negotiate("Will", option), Subnegotiate("SNDLOC", ip_addr)>>
      [] action = "Dont" -> <<Negotiate("Wont", option)>>
      [] OTHER -> <<Negotiate("Dont", option)>>

\* TelnetOption::SNDLOC, lines 199-217
OnSNDLOC(action, option, ip_addr) ==
    CASE action = "Do" ->
            <<Negotiate("Will", option),
              Subnegotiate("SNDLOC", IpToString(ip_addr))>>
      [] action = "Dont" -> <<Negotiate("Wont", option)>>
      [] action = "Will" -> <<Negotiate("Dont", option)>>
      [] action = "Wont" -> <<Negotiate("Dont", option)>>

\* Mutant of OnEcho: the inbound action is sent back as it came.
OnEchoMirror(action, option) == <<Negotiate(action, option)>>

\* TelnetOption::Echo, lines 218-233
OnEcho(action, option) ==
    CASE action = "Do" -> <<Negotiate("Will", option)>>
      [] action = "Dont" -> <<Negotiate("Wont", option)>>
      [] action = "Will" -> <<Negotiate("Do", option)>>
      [] action = "Wont" -> <<Negotiate("Dont", option)>>

\* TelnetOption::SuppressGoAhead, lines 234-249
OnSuppressGoAhead(action, option) ==
    CASE action = "Do" -> <<Negotiate("Will", option)>>
      [] action = "Dont" -> <<Negotiate("Will", option)>>
      [] action = "Will" -> <<Negotiate("Do", option)>>
      [] action = "Wont" -> <<Negotiate("Do", option)>>

\* TelnetOption::TransmitBinary, lines 250-265
OnTransmitBinary(action, option) ==
    CASE action = "Do" -> <<Negotiate("Will", option)>>
      [] action = "Dont" -> <<Negotiate("Will", option)>>
      [] action = "Will" -> <<Negotiate("Do", option)>>
      [] action = "Wont" -> <<Negotiate("Do", option)>>

\* Mutant of OnTTYPE: every action other than Do is refused with Wont.
OnTTYPERefuse(action, option) ==
    CASE action = "Do" ->
            <<Negotiate("Will", option), Subnegotiate("TTYPE", TerminalType)>>
      [] OTHER -> <<Negotiate("Wont", option)>>

\* TelnetOption::TTYPE, lines 266-276
OnTTYPE(action, option) ==
    CASE action = "Do" ->
            <<Negotiate("Will", option), Subnegotiate("TTYPE", TerminalType)>>
      [] OTHER -> <<>>

\* match option, lines 198-278
Respond(action, option, ip_addr) ==
    CASE option = "SNDLOC" -> OnSNDLOC(action, option, ip_addr)
      [] option = "Echo" -> OnEcho(action, option)
      [] option = "SuppressGoAhead" -> OnSuppressGoAhead(action, option)
      [] option = "TransmitBinary" -> OnTransmitBinary(action, option)
      [] option = "TTYPE" -> OnTTYPE(action, option)
      [] OTHER -> <<>>

\* ------------------------------------------------------- bridge state
\* pc of a bridging thread (the closure spawned at line 163):
\*   "none"      not spawned
\*   "connect"   spawned, about to open the backend Telnet connection
\*   "read"      in the loop, about to read the client socket
\*   "poll"      in the loop, about to poll the backend
\*   "exited"    left the loop by `break`, about to send ConnectionClosed
\*   "done"      closure returned
\*   "panicked"  unwound from a failed unwrap / expect (why: field exit)
NoBridge ==
    [pc |-> "none", client_id |-> 0, stream |-> 0, ip_addr |-> NoAddr,
     exit |-> ""]

InLoop(b) == b.pc \in {"read", "poll"}
Ended(b) == b.pc \in {"done", "panicked"}

\* What one bridge step did: the client read result, the backend event
\* handled, the calls made on the Telnet connection, those of them that
\* were written to the backend, and the bytes written to the client.
Step(id, op, rd, rx, ev, calls, wire, out) ==
    [id |-> id, op |-> op, rd |-> rd, rx |-> rx, ev |-> ev,
     calls |-> calls, wire |-> wire, out |-> out]

NoStep == Step(0, "none", "", <<>>, NoEvent, <<>>, <<>>, <<>>)

\* The traffic of session id since tracing began: the bytes read from the
\* client and those written to the backend, the Data buffers polled from
\* the backend and the bytes written to the client.  Session 0 is no
\* session: nothing is recorded.
Trace(id, from_client, to_backend, from_backend, to_client) ==
    [id |-> id, from_client |-> from_client, to_backend |-> to_backend,
     from_backend |-> from_backend, to_client |-> to_client]

NoTrace == Trace(0, <<>>, <<>>, <<>>, <<>>)

\* A traced client sends at most MaxBytes bytes, and the backend sends a
\* traced session at most MaxData Data events.
ClientHasByte(id) == id = trace.id => Len(trace.from_client) < MaxBytes
BackendHasData(id) == id = trace.id => Len(trace.from_backend) < MaxData

\* The receiving half of the channel lives in the manager thread's closure:
\* it is dropped when that thread unwinds, and sends then fail.
ReceiverAlive == manager.pc # "panicked"

Idle ==
    [pc |-> "running", client_id |-> 0,
     client_connection |-> ClientConnection(0, NoAddr), exit |-> ""]

\* ------------------------------------------------------------- Init
Init ==
    /\ listener = "running"
    /\ accepted = 0
    /\ client = [c \in Conns |-> "open"]
    /\ channel = <<>>
    /\ manager = Idle
    /\ next_id = 1
    /\ clients = MapNew
    /\ bridge = [id \in Ids |-> NoBridge]
    /\ last = NoStep
    /\ connected = {}
    /\ closed = [id \in Ids |-> 0]
    /\ sent = [id \in Ids |-> 0]
    /\ trace = NoTrace
    /\ feed = {}

\* The process runs until the main thread panics.
Running == listener = "running"

\* ------------------------------------------------------- main (listener)
\* One Ok(stream) of tcp_listener.incoming(): set_nonblocking, then try_send.
\* Either may fail, and both failures panic the main thread.
ListenerAccept ==
    /\ Running
    /\ accepted < MaxConns
    /\ accepted' = accepted + 1
    /\ \E nonblocking_ok \in BOOLEAN :
          IF nonblocking_ok /\ ReceiverAlive
          THEN /\ channel' = Append(channel, Connect(accepted + 1))
               /\ UNCHANGED listener
          ELSE /\ listener' = "panicked"
               /\ UNCHANGED channel
    /\ UNCHANGED <<client, manager, next_id, clients, bridge, last,
                   connected, closed, sent, trace, feed>>

\* The peer closes its end of stream c: from now on reads return 0 bytes.
ClientClose(c) ==
    /\ Running
    /\ c <= accepted
    /\ client[c] = "open"
    /\ client' = [client EXCEPT ![c] = "closed"]
    /\ UNCHANGED <<listener, accepted, channel, manager, next_id, clients,
                   bridge, last, connected, closed, sent, trace, feed>>

\* ------------------------------------------------------- client manager
\* Mutant of NewUuid: the identifier minted last is handed out again.
NewUuidReused == IF next_id > 1 THEN next_id - 1 ELSE next_id

\* Uuid::new_v4(), line 129: an identifier never minted before.
NewUuid == next_id

\* Connect arm up to the return of create_client_connection: mint the id,
\* take the peer address, clone the stream, spawn the bridging thread.
ManagerConnect ==
    /\ Running
    /\ manager.pc = "running"
    /\ channel # <<>>
    /\ Head(channel).type = "Connect"
    /\ channel' = Tail(channel)
    /\ next_id' = next_id + 1
    /\ LET client_id == NewUuid
           stream == Head(channel).stream
       IN \E peer_addr_ok \in BOOLEAN, try_clone_ok \in BOOLEAN :
            IF peer_addr_ok /\ try_clone_ok
            THEN /\ bridge' = [bridge EXCEPT ![client_id] =
                        [pc |-> "connect", client_id |-> client_id,
                         stream |-> stream, ip_addr |-> PeerAddr(stream),
                         exit |-> ""]]
                 /\ manager' =
                        [pc |-> "inserting", client_id |-> client_id,
                         client_connection |->
                             ClientConnection(client_id, PeerAddr(stream)),
                         exit |-> ""]
            ELSE /\ manager' =
                        [Idle EXCEPT !.pc = "panicked",
                                     !.exit = IF peer_addr_ok THEN "try_clone"
                                              ELSE "peer_addr"]
                 /\ UNCHANGED bridge
    /\ UNCHANGED <<listener, accepted, client, clients, last, connected,
                   closed, sent, trace, feed>>

\* Connect arm, lines 131-135: insert the record returned.
ManagerInsert ==
    /\ Running
    /\ manager.pc = "inserting"
    /\ LET client_id == manager.client_id
           client_connection == manager.client_connection
       IN clients' = IF client_id = client_connection.client_id
                     THEN MapInsert(clients, client_id, client_connection)
                     ELSE clients
    /\ connected' = connected \cup {manager.client_id}
    /\ manager' = Idle
    /\ UNCHANGED <<listener, accepted, client, channel, next_id, bridge,
                   last, closed, sent, trace, feed>>

\* Mutant of OnConnectionClosed: an id the map does not hold resets the map.
OnConnectionClosedReset(map, client_id) ==
    IF client_id \in DOMAIN map THEN MapRemove(map, client_id) ELSE MapNew

\* ConnectionClosed arm as a function of the map, lines 139-147.
OnConnectionClosed(map, client_id) ==
    LET found == MapGet(map, client_id)
    IN IF found # << >>
       THEN IF client_id = found[1].client_id
            THEN MapRemove(map, client_id)
            ELSE map
       ELSE map

\* Mutant of ManagerConnectionClosed: the message is taken while the
\* Connect arm is still between spawning the bridge and inserting.
ManagerConnectionClosedEarly ==
    /\ Running
    /\ manager.pc # "panicked"
    /\ channel # <<>>
    /\ Head(channel).type = "ConnectionClosed"
    /\ channel' = Tail(channel)
    /\ LET client_id == Head(channel).client_id
       IN /\ clients' = OnConnectionClosed(clients, client_id)
          /\ closed' = [closed EXCEPT ![client_id] = @ + 1]
    /\ UNCHANGED <<listener, accepted, client, manager, next_id, bridge,
                   last, connected, sent, trace, feed>>

ManagerConnectionClosed ==
    /\ Running
    /\ manager.pc = "running"
    /\ channel # <<>>
    /\ Head(channel).type = "ConnectionClosed"
    /\ channel' = Tail(channel)
    /\ LET client_id == Head(channel).client_id
       IN /\ clients' = OnConnectionClosed(clients, client_id)
          /\ closed' = [closed EXCEPT ![client_id] = @ + 1]
    /\ UNCHANGED <<listener, accepted, client, manager, next_id, bridge,
                   last, connected, sent, trace, feed>>

\* ------------------------------------------------------- bridging thread
\* Mutant of Panic: the panic takes down every bridge in its loop.
PanicAll(id, why) ==
    [j \in DOMAIN bridge |->
        IF j = id \/ bridge[j].pc \in {"read", "poll"}
        THEN [bridge[j] EXCEPT !.pc = "panicked", !.exit = why]
        ELSE bridge[j]]

\* A failed unwrap or expect in a bridging thread ends that thread only.
Panic(id, why) == [bridge EXCEPT ![id].pc = "panicked", ![id].exit = why]
Goto(id, pc) == [bridge EXCEPT ![id].pc = pc]

\* Telnet::connect_timeout(..).expect(..), lines 165-171.
BridgeConnect(id) ==
    /\ Running
    /\ bridge[id].pc = "connect"
    /\ \E connect_ok \in BOOLEAN :
          bridge' = IF connect_ok THEN Goto(id, "read")
                    ELSE Panic(id, "backend connect")
    /\ last' = Step(id, "connect", "", <<>>, NoEvent, <<>>, <<>>, <<>>)
    /\ UNCHANGED <<listener, accepted, client, channel, manager, next_id,
                   clients, connected, closed, sent, trace, feed>>

\* What _stream.read(&mut rx_bytes) can return: one byte or an error
\* (WouldBlock among them) while the peer is there, zero bytes or an error
\* once the peer has closed.
ReadResults(c) ==
    IF client[c] = "open"
    THEN {<<"byte", <<b>>>> : b \in ClientBytes} \cup {<<"err", <<>>>>}
    ELSE {<<"eof", <<>>>>, <<"err", <<>>>>}

\* Mutant of BridgeRead: a read of zero bytes breaks the loop.
BridgeReadEofBreaks(id) ==
    /\ Running
    /\ bridge[id].pc = "read"
    /\ \E r \in ReadResults(bridge[id].stream), write_ok \in BOOLEAN :
          LET bytes_read == Len(r[2])
              calls == IF r[1] = "byte" /\ bytes_read > 0
                       THEN <<TelnetWrite(r[2])>> ELSE <<>>
              failed == calls # <<>> /\ ~write_ok
          IN /\ (calls = <<>>) => write_ok
             /\ (r[1] = "byte") => ClientHasByte(id)
             /\ bridge' = IF failed THEN Panic(id, "telnet write")
                          ELSE IF r[1] = "eof" THEN Goto(id, "exited")
                          ELSE Goto(id, "poll")
             /\ last' = Step(id, "read", r[1], r[2], NoEvent, calls,
                             IF failed THEN <<>> ELSE calls, <<>>)
             /\ trace' = IF id = trace.id
                         THEN [trace EXCEPT
                                 !.from_client = @ \o r[2],
                                 !.to_backend =
                                     IF failed \/ calls = <<>> THEN @
                                     ELSE @ \o calls[1].data]
                         ELSE trace
    /\ UNCHANGED <<listener, accepted, client, channel, manager, next_id,
                   clients, connected, closed, sent, feed>>

\* Loop, lines 173-182: read one byte from the client, write it to the
\* backend.
BridgeRead(id) ==
    /\ Running
    /\ bridge[id].pc = "read"
    /\ \E r \in ReadResults(bridge[id].stream), write_ok \in BOOLEAN :
          LET bytes_read == Len(r[2])
              calls == IF r[1] = "byte" /\ bytes_read > 0
                       THEN <<TelnetWrite(r[2])>> ELSE <<>>
              failed == calls # <<>> /\ ~write_ok
          IN /\ (calls = <<>>) => write_ok
             /\ (r[1] = "byte") => ClientHasByte(id)
             /\ bridge' = IF failed THEN Panic(id, "telnet write")
                          ELSE Goto(id, "poll")
             /\ last' = Step(id, "read", r[1], r[2], NoEvent, calls,
                             IF failed THEN <<>> ELSE calls, <<>>)
             /\ trace' = IF id = trace.id
                         THEN [trace EXCEPT
                                 !.from_client = @ \o r[2],
                                 !.to_backend =
                                     IF failed \/ calls = <<>> THEN @
                                     ELSE @ \o calls[1].data]
                         ELSE trace
    /\ UNCHANGED <<listener, accepted, client, channel, manager, next_id,
                   clients, connected, closed, sent, feed>>

\* telnet.read_nonblocking() returned Err: expect panics, line 184.
BridgePollError(id) ==
    /\ Running
    /\ bridge[id].pc = "poll"
    /\ bridge' = Panic(id, "telnet read")
    /\ last' = Step(id, "poll", "", <<>>,
                    Event("ReadError", "", "", <<>>, ""), <<>>, <<>>, <<>>)
    /\ UNCHANGED <<listener, accepted, client, channel, manager, next_id,
                   clients, connected, closed, sent, trace, feed>>

\* Mutant of BridgeData: the response is kept in a buffer, not written.
BridgeDataBuffered(id, event) ==
    /\ event.kind = "Data"
    /\ BackendHasData(id)
    /\ bridge' = Goto(id, "read")
    /\ last' = Step(id, "poll", "", <<>>, event, <<>>, <<>>, <<>>)
    /\ trace' = IF id = trace.id
                THEN [trace EXCEPT !.from_backend = Append(@, event.buffer)]
                ELSE trace

\* Data arm, lines 186-190.  write_all writes the first `written` bytes of
\* the response and fails if that is not all of them.  TcpStream::flush
\* does nothing and cannot fail.
BridgeData(id, event) ==
    /\ event.kind = "Data"
    /\ BackendHasData(id)
    /\ LET response == FromCp437(event.buffer)
       IN \E written \in 0..Len(response) :
            /\ bridge' = IF written = Len(response) THEN Goto(id, "read")
                         ELSE Panic(id, "client write")
            /\ last' = Step(id, "poll", "", <<>>, event, <<>>, <<>>,
                            SubSeq(response, 1, written))
            /\ trace' = IF id = trace.id
                        THEN [trace EXCEPT
                                !.from_backend = Append(@, event.buffer),
                                !.to_client =
                                    @ \o SubSeq(response, 1, written)]
                        ELSE trace

\* Negotiation arm, lines 191-279.  Each call is unwrapped: the first one
\* that fails panics the thread, and the calls after it are never made.
BridgeNegotiation(id, event) ==
    /\ event.kind = "Negotiation"
    /\ LET calls == Respond(event.action, event.option, bridge[id].ip_addr)
       IN \E fail \in 0..Len(calls) :
            /\ bridge' = IF fail = 0 THEN Goto(id, "read")
                         ELSE Panic(id, "telnet write")
            /\ last' = Step(id, "poll", "", <<>>, event,
                            IF fail = 0 THEN calls ELSE SubSeq(calls, 1, fail),
                            IF fail = 0 THEN calls
                            ELSE SubSeq(calls, 1, fail - 1),
                            <<>>)
    /\ UNCHANGED trace

\* Error arm, lines 280-288.
BridgeError(id, event) ==
    /\ event.kind = "Error"
    /\ bridge' = IF event.error = "InternalQueueErr" THEN Goto(id, "exited")
                 ELSE Goto(id, "read")
    /\ last' = Step(id, "poll", "", <<>>, event, <<>>, <<>>, <<>>)
    /\ UNCHANGED trace

\* Mutant of BridgeIgnore: a timed-out poll breaks the loop.
BridgeIgnoreTimeoutFatal(id, event) ==
    /\ event.kind \in {"UnknownIAC", "Subnegotiation", "TimedOut", "NoData"}
    /\ bridge' = IF event.kind = "TimedOut" THEN Goto(id, "exited")
                 ELSE Goto(id, "read")
    /\ last' = Step(id, "poll", "", <<>>, event, <<>>, <<>>, <<>>)
    /\ UNCHANGED trace

\* UnknownIAC, Subnegotiation, TimedOut and NoData arms, lines 289-292.
BridgeIgnore(id, event) ==
    /\ event.kind \in {"UnknownIAC", "Subnegotiation", "TimedOut", "NoData"}
    /\ bridge' = Goto(id, "read")
    /\ last' = Step(id, "poll", "", <<>>, event, <<>>, <<>>, <<>>)
    /\ UNCHANGED trace

\* Loop, lines 184-294: poll the backend and handle the event.
BridgePoll(id) ==
    /\ Running
    /\ bridge[id].pc = "poll"
    /\ \E event \in Events \cup {Event("Data", "", "", b, "") : b \in feed} :
          \/ BridgeData(id, event)
          \/ BridgeNegotiation(id, event)
          \/ BridgeError(id, event)
          \/ BridgeIgnore(id, event)
    /\ UNCHANGED <<listener, accepted, client, channel, manager, next_id,
                   clients, connected, closed, sent, feed>>

\* Mutant of BridgeTeardown: the thread also removes its own record.
BridgeTeardownDirect(id) ==
    /\ Running
    /\ bridge[id].pc = "exited"
    /\ IF ReceiverAlive
       THEN /\ channel' = Append(channel, ConnectionClosed(bridge[id].client_id))
            /\ sent' = [sent EXCEPT ![id] = @ + 1]
            /\ bridge' = Goto(id, "done")
       ELSE /\ bridge' = Panic(id, "channel send")
            /\ UNCHANGED <<channel, sent>>
    /\ clients' = MapRemove(clients, bridge[id].client_id)
    /\ last' = Step(id, "teardown", "", <<>>, NoEvent, <<>>, <<>>, <<>>)
    /\ UNCHANGED <<listener, accepted, client, manager, next_id,
                   connected, closed, trace, feed>>

\* After the loop, line 296: try_send(ConnectionClosed{client_id}).unwrap()
BridgeTeardown(id) ==
    /\ Running
    /\ bridge[id].pc = "exited"
    /\ IF ReceiverAlive
       THEN /\ channel' = Append(channel, ConnectionClosed(bridge[id].client_id))
            /\ sent' = [sent EXCEPT ![id] = @ + 1]
            /\ bridge' = Goto(id, "done")
       ELSE /\ bridge' = Panic(id, "channel send")
            /\ UNCHANGED <<channel, sent>>
    /\ last' = Step(id, "teardown", "", <<>>, NoEvent, <<>>, <<>>, <<>>)
    /\ UNCHANGED <<listener, accepted, client, manager, next_id, clients,
                   connected, closed, trace, feed>>

\* ------------------------------------------------------- specification
Next ==
    \/ ListenerAccept
    \/ \E c \in Conns : ClientClose(c)
    \/ ManagerConnect
    \/ ManagerInsert
    \/ ManagerConnectionClosed
    \/ \E id \in Ids : BridgeConnect(id)
    \/ \E id \in Ids : BridgeRead(id)
    \/ \E id \in Ids : BridgePollError(id)
    \/ \E id \in Ids : BridgePoll(id)
    \/ \E id \in Ids : BridgeTeardown(id)

Spec == Init /\ [][Next]_vars

\* ===================================================== claims C1 - C5

\* C1 - Registry consistency: whenever the client manager is between two
\* messages, the keys of the client map are exactly the session ids whose
\* Connect has been processed and whose ConnectionClosed has not.
RegistryConsistency ==
    manager.pc = "running" =>
        DOMAIN clients = {id \in connected : closed[id] = 0}

\* C1 witness: one session is registered while another one, registered
\* earlier, has been removed by its ConnectionClosed.
RegistryConsistencyWitness ==
    /\ manager.pc = "running"
    /\ \E i \in Ids, j \in Ids :
          /\ i # j
          /\ i \in DOMAIN clients
          /\ j \in connected /\ closed[j] = 1 /\ j \notin DOMAIN clients

\* C2 - Teardown: a bridging thread whose loop has ended, for whatever
\* reason, has sent ConnectionClosed with its own id exactly once.  (A
\* thread that never entered the loop is C3's case.)
TeardownExactlyOnce ==
    \A id \in Ids :
        (Ended(bridge[id]) /\ bridge[id].exit # "backend connect") =>
            sent[id] = 1

\* C3 - No registry leak: the client map never holds the id of a bridging
\* thread that has ended unless that id's ConnectionClosed is still queued.
\* An ended thread sends nothing more, so a state violating this keeps the
\* id in the map in every continuation, however the threads are scheduled.
NoRegistryLeak ==
    \A id \in DOMAIN clients :
        Ended(bridge[id]) =>
            \E i \in 1..Len(channel) : channel[i] = ConnectionClosed(id)

\* C4 - Client closure: a client read that returns zero bytes makes the
\* bridge leave its loop (and so send ConnectionClosed).
ClientClosureDetected ==
    (last.op = "read" /\ last.rd = "eof") => ~InLoop(bridge[last.id])

\* C5 - Registry actor survival: a Connect whose socket has no peer address
\* does not end the client manager's loop.
ManagerSurvives == ~(manager.pc = "panicked" /\ manager.exit = "peer_addr")

\* ===================================================== claim C6
\* The ConnectionClosed arm run from every client map the program can hold,
\* on every queue of up to MaxClosed ConnectionClosed messages, repeated
\* and unknown identifiers included.
ClosedQueues ==
    UNION {[1..n -> {ConnectionClosed(id) : id \in Ids}] : n \in 0..MaxClosed}

ClosedInit ==
    /\ listener = "running"
    /\ accepted = MaxConns
    /\ client = [c \in Conns |-> "open"]
    /\ channel \in ClosedQueues
    /\ manager = Idle
    /\ next_id = MaxConns + 1
    /\ \E live \in SUBSET Ids :
          /\ clients = [id \in live |-> ClientConnection(id, PeerAddr(id))]
          /\ bridge = [id \in Ids |->
                IF id \in live
                THEN [pc |-> "read", client_id |-> id, stream |-> id,
                      ip_addr |-> PeerAddr(id), exit |-> ""]
                ELSE NoBridge]
          /\ connected = live
    /\ last = NoStep
    /\ closed = [id \in Ids |-> 0]
    /\ sent = [id \in Ids |-> 0]
    /\ trace = NoTrace
    /\ feed = {}

ClosedNext == ManagerConnectionClosed

ClosedSpec == ClosedInit /\ [][ClosedNext]_vars

\* The client manager takes ConnectionClosed{id} off the channel.
ClosedStep(id) ==
    /\ manager.pc = "running"
    /\ channel # <<>>
    /\ Head(channel) = ConnectionClosed(id)
    /\ channel' = Tail(channel)

\* C6 - Idempotent closure: processing ConnectionClosed{id} leaves id out of
\* the client map and every other entry as it was; processing it again, or
\* for an id the map does not hold, leaves the map unchanged, and the
\* client manager keeps running.
IdempotentClosure ==
    [][\A id \in Ids :
          ClosedStep(id) =>
              /\ id \notin DOMAIN clients'
              /\ DOMAIN clients' = DOMAIN clients \ {id}
              /\ \A k \in DOMAIN clients' : clients'[k] = clients[k]
              /\ (closed[id] >= 1 \/ id \notin DOMAIN clients)
                    => clients' = clients
              /\ manager'.pc = "running"]_vars

\* C6 witness: the same id has been closed twice, the first time while it
\* was in the map, and another session is still registered.
IdempotentClosureWitness ==
    \E id \in Ids :
        /\ closed[id] = 2
        /\ id \in connected
        /\ clients # MapNew

\* ===================================================== claims C7 - C10
NegotiationEvent(action, option) == Event("Negotiation", action, option, <<>>, "")

\* The bridge has just handled ev, polled from the backend.
Handled(ev) == last.op = "poll" /\ last.ev = ev

NegotiateCalls(calls) == SelectSeq(calls, LAMBDA c : c.call = "negotiate")
SubnegotiateCalls(calls) == SelectSeq(calls, LAMBDA c : c.call = "subnegotiate")

\* The decision table: <<option, inbound action, reciprocal action>>.
DecisionTable ==
    {<<"Echo", "Do", "Will">>, <<"Echo", "Dont", "Wont">>,
     <<"Echo", "Will", "Do">>, <<"Echo", "Wont", "Dont">>,
     <<"SuppressGoAhead", "Do", "Will">>, <<"SuppressGoAhead", "Dont", "Will">>,
     <<"SuppressGoAhead", "Will", "Do">>, <<"SuppressGoAhead", "Wont", "Do">>,
     <<"TransmitBinary", "Do", "Will">>, <<"TransmitBinary", "Dont", "Will">>,
     <<"TransmitBinary", "Will", "Do">>, <<"TransmitBinary", "Wont", "Do">>,
     <<"SNDLOC", "Do", "Will">>, <<"SNDLOC", "Dont", "Wont">>,
     <<"TTYPE", "Do", "Will">>}

\* C7 - Negotiation table: for every (option, action) pair of the decision
\* table, handling that negotiation makes exactly one negotiate call, for
\* the table's reciprocal action on the same option; this holds after every
\* such event of a session, so a repeated pair is answered the same way.
NegotiationTable ==
    \A t \in DecisionTable :
        Handled(NegotiationEvent(t[2], t[1])) =>
            NegotiateCalls(last.calls) = <<Negotiate(t[3], t[1])>>

\* C7 witness: Dont Echo was answered, with Wont Echo written to the backend.
NegotiationTableWitness ==
    /\ Handled(NegotiationEvent("Dont", "Echo"))
    /\ last.wire = <<Negotiate("Wont", "Echo")>>
    /\ bridge[last.id].pc = "read"

\* The cells the decision table marks with a dash: <<option, action>>.
DashCells ==
    {<<"SNDLOC", "Will">>, <<"SNDLOC", "Wont">>,
     <<"TTYPE", "Dont">>, <<"TTYPE", "Will">>, <<"TTYPE", "Wont">>}

\* C8 as stated - Dash cells: for a dash cell the bridge makes no negotiate
\* and no subnegotiate call.
DashCellsSilent ==
    \A d \in DashCells :
        Handled(NegotiationEvent(d[2], d[1])) => last.calls = <<>>

\* C8 amended - Dash cells: Terminal-Type with Dont, Will or Wont is left
\* unanswered; Report-Location with Will or Wont is answered with exactly one
\* Dont Report-Location and no sub-negotiation.
DashCellsAnswered ==
    \A d \in DashCells :
        Handled(NegotiationEvent(d[2], d[1])) =>
            last.calls = IF d[1] = "SNDLOC"
                         THEN <<Negotiate("Dont", "SNDLOC")>>
                         ELSE <<>>

\* C8 witness: Wont Terminal-Type was handled and the bridge is back at the
\* top of its loop.
DashCellsWitness ==
    /\ Handled(NegotiationEvent("Wont", "TTYPE"))
    /\ bridge[last.id].pc = "read"

\* The ClientConnection records of session id: the one in the client map,
\* and the one the client manager is about to insert.
RecordsOf(id) ==
    {clients[k] : k \in DOMAIN clients \cap {id}}
    \cup (IF manager.pc = "inserting" /\ manager.client_id = id
          THEN {manager.client_connection} ELSE {})

\* "203.0.113.7"
Scenario3Text == <<50, 48, 51, 46, 48, 46, 49, 49, 51, 46, 55>>

\* C9 - Sub-negotiation payloads: once Will has been written in answer to Do
\* Terminal-Type, the calls are that Will and then one Terminal-Type
\* sub-negotiation carrying "ansi-bbs"; in answer to Do Report-Location, that
\* Will and then one Report-Location sub-negotiation carrying the text of the
\* address in the session's ClientConnection record ("203.0.113.7" for
\* 203.0.113.7); no other step of a bridge makes a subnegotiate call.
SubnegotiationPayloads ==
    /\ (Handled(NegotiationEvent("Do", "TTYPE")) /\ last.wire # <<>>) =>
          last.calls = <<Negotiate("Will", "TTYPE"),
                         Subnegotiate("TTYPE", TerminalType)>>
    /\ (Handled(NegotiationEvent("Do", "SNDLOC")) /\ last.wire # <<>>) =>
          /\ Len(last.calls) = 2
          /\ last.calls[1] = Negotiate("Will", "SNDLOC")
          /\ last.calls[2].call = "subnegotiate"
          /\ last.calls[2].option = "SNDLOC"
          /\ \A r \in RecordsOf(last.id) :
                /\ last.calls[2].data = IpToString(r.ip_addr)
                /\ r.ip_addr = <<203, 0, 113, 7>> =>
                      last.calls[2].data = Scenario3Text
    /\ ~(\/ Handled(NegotiationEvent("Do", "TTYPE"))
         \/ Handled(NegotiationEvent("Do", "SNDLOC"))) =>
          SubnegotiateCalls(last.calls) = <<>>

\* C9 witness: Do Report-Location was answered for a registered session,
\* Will and the sub-negotiation both written.
SubnegotiationPayloadsWitness ==
    /\ Handled(NegotiationEvent("Do", "SNDLOC"))
    /\ last.id \in DOMAIN clients
    /\ Len(last.wire) = 2
    /\ last.wire[2].call = "subnegotiate"

\* The conditions a bridge ignores.
Recoverable(ev) ==
    \/ ev.kind \in {"NoData", "TimedOut", "UnknownIAC", "Subnegotiation"}
    \/ /\ ev.kind = "Negotiation"
       /\ ev.option \notin {"Echo", "SuppressGoAhead", "TransmitBinary",
                            "TTYPE", "SNDLOC"}

\* Bridge id polls the backend and handles what it gets.
PollStep(id) ==
    /\ bridge[id].pc = "poll"
    /\ bridge'[id].pc # "poll"
    /\ last'.id = id
    /\ last'.op = "poll"

\* C10 - Recoverable conditions: handling No-data, Timed-out, an unknown
\* command, a sub-negotiation or a negotiation for an option outside the
\* five makes no call on the Telnet connection, writes nothing to the
\* backend or the client, sends no lifecycle message, and leaves the bridge
\* at the top of its loop.
RecoverableIgnored ==
    [][\A id \in Ids :
          (PollStep(id) /\ Recoverable(last'.ev)) =>
              /\ last'.calls = <<>>
              /\ last'.wire = <<>>
              /\ last'.out = <<>>
              /\ channel' = channel
              /\ sent' = sent
              /\ bridge'[id].pc = "read"]_vars

\* C10 witness: a negotiation for an option outside the five was handled
\* and the bridge is back at the top of its loop, nothing sent.
RecoverableIgnoredWitness ==
    /\ Handled(NegotiationEvent("Do", "NAWS"))
    /\ bridge[last.id].pc = "read"
    /\ sent[last.id] = 0

\* ===================================================== claim C11
\* One session, established and registered: the Connect of stream 1 has
\* been processed, the bridging thread has connected to the backend and
\* is at the top of its loop.
Established ==
    /\ listener = "running"
    /\ accepted = 1
    /\ client = [c \in Conns |-> "open"]
    /\ channel = <<>>
    /\ manager = Idle
    /\ next_id = 2
    /\ clients = MapInsert(MapNew, 1, ClientConnection(1, PeerAddr(1)))
    /\ bridge = [id \in Ids |->
          IF id = 1
          THEN [pc |-> "read", client_id |-> 1, stream |-> 1,
                ip_addr |-> PeerAddr(1), exit |-> ""]
          ELSE NoBridge]
    /\ last = Step(1, "connect", "", <<>>, NoEvent, <<>>, <<>>, <<>>)
    /\ connected = {1}
    /\ closed = [id \in Ids |-> 0]
    /\ sent = [id \in Ids |-> 0]

\* The steps of session 1 and of the client manager on its behalf.
SessionNext ==
    \/ ClientClose(1)
    \/ BridgeRead(1)
    \/ BridgePollError(1)
    \/ BridgePoll(1)
    \/ BridgeTeardown(1)
    \/ ManagerConnectionClosed

\* Session 1 with its traffic recorded.
TraceInit == Established /\ trace = Trace(1, <<>>, <<>>, <<>>, <<>>) /\ feed = {}

TraceSpec == TraceInit /\ [][SessionNext]_vars

IsPrefix(s, t) == Len(s) <= Len(t) /\ s = SubSeq(t, 1, Len(s))

RECURSIVE Flatten(_)
Flatten(buffers) ==
    IF buffers = <<>> THEN <<>> ELSE Head(buffers) \o Flatten(Tail(buffers))

\* C11 - Per-direction ordering: the bytes written to the backend are a
\* prefix of the bytes read from the client, the bytes written to the
\* client are a prefix of the decoded Data payloads in arrival order, and
\* whenever the bridge is in its loop, about to read or to poll again,
\* everything read has been written to the backend (after the read step)
\* and every Data payload has been written to the client.
PerDirectionOrder ==
    LET decoded == FromCp437(Flatten(trace.from_backend))
    IN /\ IsPrefix(trace.to_backend, trace.from_client)
       /\ IsPrefix(trace.to_client, decoded)
       /\ InLoop(bridge[trace.id]) =>
             /\ trace.to_client = decoded
             /\ trace.to_backend = trace.from_client

\* C11 witness: two bytes went to the backend and two Data payloads to the
\* client, and the bridge is at the top of its loop.
PerDirectionOrderWitness ==
    /\ Len(trace.to_backend) = 2
    /\ trace.to_backend[1] # trace.to_backend[2]
    /\ Len(trace.from_backend) = 2
    /\ trace.from_backend[1] # trace.from_backend[2]
    /\ trace.to_client # <<>>
    /\ bridge[trace.id].pc = "read"

\* ===================================================== claim C12
\* ConnectionClosed{id} is taken off the channel.
TakesClosed(id) ==
    /\ channel # <<>>
    /\ Head(channel) = ConnectionClosed(id)
    /\ channel' = Tail(channel)

\* The Connect arm inserts the record of the bridge it has spawned.
InsertStep == manager.pc = "inserting" /\ manager'.pc = "running"

\* C12 - Lifecycle order: a session's ConnectionClosed is processed only
\* when the Connect that created the session has been processed to the
\* end, so it finds the session in the client map and removes it; and no
\* record is inserted for a session whose ConnectionClosed has already
\* been processed.
LifecycleOrder ==
    [][/\ \A id \in Ids :
             TakesClosed(id) =>
                 /\ manager.pc = "running"
                 /\ id \in connected
                 /\ id \in DOMAIN clients
                 /\ id \notin DOMAIN clients'
       /\ InsertStep => closed[manager.client_id] = 0]_vars

\* C12 witness: the bridge of the session being inserted has already left
\* its loop and queued its ConnectionClosed, before the insert.
LifecycleOrderWitness ==
    \E id \in Ids :
        /\ manager.pc = "inserting"
        /\ manager.client_id = id
        /\ id \notin DOMAIN clients
        /\ bridge[id].pc = "done"
        /\ \E i \in 1..Len(channel) : channel[i] = ConnectionClosed(id)

\* ===================================================== claim C13
\* The bridging thread of session i has been spawned and has not ended.
Active(i) == bridge[i].pc \in {"connect", "read", "poll", "exited"}

ListenerStep == accepted' # accepted

\* A bridging thread that was running has taken a step.
BridgeStep == \E id \in Ids : Active(id) /\ bridge'[id] # bridge[id]

\* The client manager has finished a Connect arm or run a
\* ConnectionClosed arm.
ManagerMapStep ==
    \/ InsertStep
    \/ manager.pc = "running" /\ \E id \in Ids : TakesClosed(id)

\* C14 - Single writer: no step of the main thread or of a bridging thread
\* changes the client map; it changes only in the client manager's Connect
\* and ConnectionClosed arms.
SingleWriter ==
    [][/\ (ListenerStep \/ BridgeStep) => clients' = clients
       /\ clients' # clients => ManagerMapStep]_vars

\* C14 witness: a registered bridge has left its loop and sent its
\* ConnectionClosed, and its record is still in the client map.
SingleWriterWitness ==
    /\ last.op = "teardown"
    /\ bridge[last.id].pc = "done"
    /\ last.id \in DOMAIN clients
    /\ manager.pc = "running"

\* ===================================================== claim C15
\* The bridge of session i ends on an error in this step: a backend
\* connect failure, a Telnet read or write failure, a client write failure
\* (all panics), or the internal queue error that breaks the loop.
EndsOnError(i) ==
    /\ Active(i)
    /\ \/ bridge'[i].pc = "panicked"
       \/ bridge[i].pc = "poll" /\ bridge'[i].pc = "exited"

\* C15 - Error isolation: a step in which one session's bridge ends on an
\* error leaves every other bridge, the client manager, the main thread
\* and the client map as they were; and a record leaves the client map
\* only when that session's own ConnectionClosed is taken off the channel.
ErrorIsolation ==
    [][/\ \A i \in Ids :
             EndsOnError(i) =>
                 /\ \A j \in Ids \ {i} : bridge'[j] = bridge[j]
                 /\ manager' = manager
                 /\ listener' = listener
                 /\ clients' = clients
       /\ \A k \in DOMAIN clients :
             k \notin DOMAIN clients' => TakesClosed(k)]_vars

\* C15 witness: the last step was a panic of one bridge while another
\* session is in its loop and registered, and the client manager and the
\* main thread are running.
ErrorIsolationWitness ==
    /\ last.id \in Ids
    /\ bridge[last.id].pc = "panicked"
    /\ bridge[last.id].exit \in {"telnet write", "telnet read", "client write"}
    /\ \E j \in Ids \ {last.id} : InLoop(bridge[j]) /\ j \in DOMAIN clients
    /\ manager.pc = "running"
    /\ listener = "running"

\* ===================================================== claim C16
\* One established session whose backend can send, besides the events of
\* Events, a Data payload of any one byte value.
DecodeInit ==
    /\ Established
    /\ trace = NoTrace
    /\ feed \in {{<<b>>} : b \in 0..255}

DecodeSpec == DecodeInit /\ [][SessionNext]_vars

\* The Unicode scalars a byte string spells when read as UTF-8; a
\* malformed string yields a sequence holding -1.
RECURSIVE Utf8Scalars(_)
Utf8Scalars(s) ==
    IF s = <<>> THEN <<>>
    ELSE IF s[1] < 128 THEN <<s[1]>> \o Utf8Scalars(Tail(s))
    ELSE IF /\ s[1] \in 194..223
            /\ Len(s) >= 2
            /\ s[2] \in 128..191
         THEN <<(s[1] - 192) * 64 + (s[2] - 128)>>
                  \o Utf8Scalars(SubSeq(s, 3, Len(s)))
    ELSE IF /\ s[1] \in 224..239
            /\ Len(s) >= 3
            /\ s[2] \in 128..191
            /\ s[3] \in 128..191
            /\ (s[1] - 224) * 4096 + (s[2] - 128) * 64 >= 2048
            /\ (s[1] - 224) * 4096 + (s[2] - 128) * 64 \notin 55296..57343
         THEN <<(s[1] - 224) * 4096 + (s[2] - 128) * 64 + (s[3] - 128)>>
                  \o Utf8Scalars(SubSeq(s, 4, Len(s)))
    ELSE <<-1>>

\* C16 - Decode is total: whatever bytes a Data payload holds, what the
\* client is sent is well-formed UTF-8 text with one character per payload
\* byte, the CP437 character of that byte (the byte itself below 0x80);
\* a Data event ends the thread only when the write to the client fails;
\* and the payload 0x41 0x42 reaches the client as "AB".
DecodeTotal ==
    (last.op = "poll" /\ last.ev.kind = "Data") =>
        LET buffer == last.ev.buffer
            text == Utf8Scalars(last.out)
        IN /\ bridge[last.id].pc \in {"read", "panicked"}
           /\ bridge[last.id].pc = "panicked" =>
                  bridge[last.id].exit = "client write"
           /\ bridge[last.id].pc = "read" =>
                  /\ Len(text) = Len(buffer)
                  /\ \A i \in 1..Len(buffer) :
                        /\ text[i] = Cp437Decode(buffer[i])
                        /\ buffer[i] < 128 => text[i] = buffer[i]
                        /\ buffer[i] >= 128 => text[i] >= 128
                  /\ buffer = <<65, 66>> => last.out = <<65, 66>>

\* C16 witness: the payload byte 0xFF has reached the client as U+00A0.
DecodeTotalWitness ==
    /\ last.op = "poll"
    /\ last.ev.kind = "Data"
    /\ last.ev.buffer = <<255>>
    /\ last.out = <<194, 160>>
    /\ bridge[last.id].pc = "read"

\* ===================================================== claim C17
\* C17 - Internal protocol error is terminal: a poll that yields the
\* internal queue error takes the bridge out of its loop in that step with
\* nothing forwarded, any other Telnet error leaves it in the loop, and a
\* bridge that has left its loop this way and finished has sent
\* ConnectionClosed with its id exactly once.
InternalErrorTerminal ==
    /\ (last.op = "poll" /\ last.ev.kind = "Error") =>
          /\ last.calls = <<>> /\ last.wire = <<>> /\ last.out = <<>>
          /\ IF last.ev.error = "InternalQueueErr"
             THEN ~InLoop(bridge[last.id])
             ELSE bridge[last.id].pc = "read"
    /\ \A id \in Ids :
          (\/ bridge[id].pc = "done"
           \/ bridge[id].pc = "panicked" /\ bridge[id].exit = "channel send")
              => sent[id] = 1

\* ===================================================== claim C18
\* The sessions whose bridging thread has been spawned.
Started == {id \in Ids : bridge[id].pc # "none"}

\* A bridging thread is spawned for session id in this step.
Starts(id) == bridge[id].pc = "none" /\ bridge'[id].pc # "none"

\* C18 - Bridge creation: a bridge is started only by the client manager
\* taking a Connect off the channel, one bridge per Connect and before the
\* insert; finishing that Connect inserts exactly the record of that
\* bridge and starts none; so whenever the manager is between two messages
\* the bridges started are as many as the Connects processed, and one more
\* while the manager is between the spawn and the insert.
BridgeCreation ==
    /\ [](Cardinality(Started) =
              Cardinality(connected)
                  + (IF manager.pc = "inserting" THEN 1 ELSE 0))
    /\ [][/\ \A id \in Ids :
                Starts(id) =>
                    /\ manager.pc = "running"
                    /\ channel # <<>>
                    /\ Head(channel).type = "Connect"
                    /\ channel' = Tail(channel)
                    /\ manager'.pc = "inserting"
                    /\ manager'.client_id = id
                    /\ Started' = Started \cup {id}
                    /\ clients' = clients
          /\ InsertStep =>
                /\ manager.client_id \in Started
                /\ manager.client_id \notin DOMAIN clients
                /\ DOMAIN clients' = DOMAIN clients \cup {manager.client_id}
                /\ \A k \in DOMAIN clients : clients'[k] = clients[k]
                /\ connected' = connected \cup {manager.client_id}
                /\ Started' = Started]_vars

\* C18 witness: two Connects have been processed to the end, two bridges
\* have been started and two records are in the client map.
BridgeCreationWitness ==
    /\ manager.pc = "running"
    /\ Cardinality(connected) = 2
    /\ Cardinality(Started) = 2
    /\ MapLen(clients) = 2

\* ===================================================== claim C19
\* The bridge of session id does the client read of one loop iteration.
ReadStep(id) == bridge[id].pc = "read" /\ bridge'[id] # bridge[id]

\* C19 - A client read that returns zero bytes or an error writes nothing
\* to the backend and does not end the loop: the bridge goes on to poll
\* the backend in the same iteration.  Every read forwards at most the one
\* byte it read, and every iteration is one read followed by one poll that
\* handles one event and then starts the next iteration or ends the loop.
QuietReadNotTerminal ==
    [][\A id \in Ids :
          /\ ReadStep(id) =>
                /\ last'.id = id /\ last'.op = "read"
                /\ last'.rd \in {"eof", "err"} =>
                      /\ last'.calls = <<>>
                      /\ last'.wire = <<>>
                      /\ bridge'[id].pc = "poll"
                /\ Len(last'.rx) <= 1
                /\ Len(last'.calls) <= 1
                /\ last'.calls # <<>> => last'.calls[1] = TelnetWrite(last'.rx)
                /\ last'.ev = NoEvent
                /\ bridge'[id].pc \in {"poll", "panicked"}
          /\ PollStep(id) =>
                /\ last'.id = id /\ last'.op = "poll"
                /\ last'.ev # NoEvent
                /\ last'.rx = <<>>
                /\ bridge'[id].pc \in {"read", "exited", "panicked"}]_vars

\* C19 witness: the client has closed, the read returned zero bytes,
\* nothing was written and the bridge is about to poll the backend.
QuietReadNotTerminalWitness ==
    /\ last.op = "read"
    /\ last.rd = "eof"
    /\ last.calls = <<>>
    /\ client[bridge[last.id].stream] = "closed"
    /\ bridge[last.id].pc = "poll"

\* ===================================================== claim C20
\* C20 - Every record of the client map stored under key k carries the
\* id k and the peer address of the stream that came with the Connect for
\* which k was minted; the record the Connect arm is about to insert
\* carries the id just minted, so the guard before the insert is true and
\* the insert happens; and the guard before the remove is true, so a
\* ConnectionClosed whose id is in the map removes it.
EntryMatchesKey ==
    /\ [](/\ \A k \in DOMAIN clients :
                /\ clients[k].client_id = k
                /\ bridge[k].client_id = k
                /\ clients[k].ip_addr = PeerAddr(bridge[k].stream)
          /\ manager.pc = "inserting" =>
                manager.client_connection.client_id = manager.client_id)
    /\ [][/\ InsertStep => manager.client_id \in DOMAIN clients'
          /\ \A id \in Ids :
                (manager.pc = "running" /\ TakesClosed(id)
                     /\ id \in DOMAIN clients) =>
                    id \notin DOMAIN clients']_vars

\* C20 witness: the map holds the records of two sessions, each under its
\* own id with its own peer address.
EntryMatchesKeyWitness ==
    /\ DOMAIN clients = {1, 2}
    /\ clients[1] = ClientConnection(1, PeerAddr(bridge[1].stream))
    /\ clients[2] = ClientConnection(2, PeerAddr(bridge[2].stream))
    /\ clients[1].ip_addr # clients[2].ip_addr

====
